---- MODULE Spec2Model ----
(***************************************************************************)
(* A model of anaflow.gwsolutions: the steady-state solutions (thiem,      *)
(* ext_thiem2D, ext_thiem3D), the transient solutions (theis, ext_theis2D, *)
(* ext_theis3D, diskmodel) and the Laplace-space solver                    *)
(* lap_transgwflow_cyl.                                                    *)
(*                                                                         *)
(* Numbers.  Radii, times, transmissivities, storativities and heads are   *)
(* small integers; np.inf is the integer Inf, larger than every finite     *)
(* value of the model.  A floating-point result is a symbolic record that  *)
(* names the computation that produced it, together with a class           *)
(* "zero" | "fin" | "nonfin" (nonfin: inf, -inf or nan).                   *)
(*                                                                         *)
(* Arrays.  A numpy array is [shape, data, buf]: its shape, its elements   *)
(* in row-major order and the buffer it views.  np.squeeze and reshape     *)
(* return views (same buf); np.array, np.zeros and np.copy allocate.       *)
(***************************************************************************)
EXTENDS Integers, Sequences, FiniteSets, TLC

\* np.inf (the default outer radius).
Inf == 1000

\* Longest radius / time array of a call.
MaxLen == 2

\* Largest number of zones of a partition.
MaxParts == 3

---------------------------------------------------------------------------
(* numpy arrays *)

Arr(shape, data, buf) == [shape |-> shape, data |-> data, buf |-> buf]

\* A 1-d array holding the elements of a sequence.
Vec(data, buf) == Arr(<<Len(data)>>, data, buf)

Size(a) == Len(a.data)

\* np.squeeze: every axis of length one is removed; the result is a view.
Squeeze(a) == [a EXCEPT !.shape = SelectSeq(a.shape, LAMBDA d : d # 1)]

\* a.reshape(-1): one axis holding every element; a view.
Flatten(a) == [a EXCEPT !.shape = <<Len(a.data)>>]

\* np.array(a): a copy in a buffer of its own.
np_array(a, buf) == [a EXCEPT !.buf = buf]

\* len(a) raises TypeError for a 0-d array ("len() of unsized object"),
\* and a[0] raises IndexError for it.
Sized(a) == Len(a.shape) > 0

PyLen(a) == a.shape[1]

\* np.any(a <op> x), for the comparisons the checks use.
AnyLt(a, x) == \E i \in 1..Size(a) : a.data[i] < x
AnyLe(a, x) == \E i \in 1..Size(a) : a.data[i] <= x
AnyGe(a, x) == \E i \in 1..Size(a) : a.data[i] >= x

\* The sequences over S of a length in lo..hi.
SeqsOver(S, lo, hi) == UNION {[1..n -> S] : n \in lo..hi}

\* 1, 1, ..., 1 (n times), and the same with one 0 in it.
Ones(n) == [i \in 1..n |-> 1]
OnesOrOneZero(n) ==
    {Ones(n)} \cup {[Ones(n) EXCEPT ![k] = 0] : k \in 1..n}

\* k, k+1, ..., k+n-1
Upfrom(k, n) == [i \in 1..n |-> k + i - 1]

---------------------------------------------------------------------------
(* floating-point classes *)

FpClass == {"zero", "fin", "nonfin"}

\* x * y: 0 * finite is 0, 0 * inf is nan, finite * inf is inf.
MulC(x, y) ==
    IF x = "nonfin" \/ y = "nonfin" THEN "nonfin"
    ELSE IF x = "zero" \/ y = "zero" THEN "zero"
    ELSE "fin"

\* x + y: anything plus inf or nan is not finite.
AddC(x, y) ==
    IF x = "nonfin" \/ y = "nonfin" THEN "nonfin"
    ELSE IF x = "zero" /\ y = "zero" THEN "zero"
    ELSE "fin"

\* np.isfinite
IsFinite(c) == c # "nonfin"

---------------------------------------------------------------------------
(* lap_transgwflow_cyl *)

\* One element of the solver's output.  zone: the zone whose coefficients
\* evaluated it (0: never written, the zero res was initialised with);
\* node: the Laplace variable; r: the radius; coef: the classes of the two
\* coefficients used; rule: what produced the coefficients.
Val(zone, node, r, cls, coef, rule) ==
    [zone |-> zone, node |-> node, r |-> r, cls |-> cls, coef |-> coef,
     rule |-> rule]

\* A product of Bessel values and other factors: sign * num / den, the
\* factors being <<name, zone or radius, radius>>.
Mono(sign, num, den) == [sign |-> sign, num |-> num, den |-> den]
NoMono == Mono(0, {}, {})

\* What produced a pair of coefficients: on the single-zone path the rule
\* name and the expressions of As and Bs, on the multi-zone path the
\* matrix M and the right-hand side V of the system solved.
Rule(name, M, V, As, Bs) ==
    [name |-> name, M |-> M, V |-> V, As |-> As, Bs |-> Bs]
NoRule == Rule("none", <<>>, <<>>, NoMono, NoMono)

\* The float 0.0.
ZeroVal == Val(0, <<0, 0>>, 0, "zero", <<"zero", "zero">>, NoRule)

\* What the floating-point evaluation of one call does.  xbad: the index
\* of the Laplace node whose linear solve yields non-finite coefficients
\* (0: none); ovf: the index of the radius at which I0 overflows (0: none).
NoEnv == [xbad |-> 0, ovf |-> 0]

\* i0(Cs*re) at the radius with index j.
I0Class(env, j) == IF env.ovf = j THEN "nonfin" ELSE "fin"

\* k0(Cs*re): K0 has a pole at 0.
K0Class(re) == IF re = 0 THEN "nonfin" ELSE "fin"

\* res = np.zeros(s.shape + rad.shape)
ResAllocAliased(s, rad) ==
    Arr(s.shape \o rad.shape, [i \in 1..(Size(s) * Size(rad)) |-> ZeroVal],
        rad.buf)
ResAlloc(s, rad) ==
    Arr(s.shape \o rad.shape, [i \in 1..(Size(s) * Size(rad)) |-> ZeroVal],
        "res")

\* What a call of the solver did.  exc: the exception it raised ("none":
\* it returned res); assembled: the Laplace nodes for which a coefficient
\* matrix was assembled; evaluated: the heads evaluated; writes: the
\* buffers it stored into; sys: the systems solved, node by node.
LapOut(exc, res, path, assembled, evaluated, writes) ==
    [exc |-> exc, res |-> res, path |-> path, assembled |-> assembled,
     evaluated |-> evaluated, writes |-> writes, sys |-> <<>>]

NoArr == Arr(<<>>, <<>>, "none")

LapRaise(exc, path, assembled, evaluated, writes) ==
    LapOut(exc, NoArr, path, assembled, evaluated, writes)

\* The coefficient rule of the single-zone path.
SingleRule(rpart) ==
    IF rpart.data[1] = 0
    THEN IF rpart.data[Size(rpart)] = Inf THEN "origin_inf" ELSE "origin_R"
    ELSE IF rpart.data[Size(rpart)] = Inf THEN "well_inf" ELSE "well_R"

\* The classes of (As, Bs): As = 0.0 when the outer boundary is infinite.
SingleCoef(rpart) ==
    IF rpart.data[Size(rpart)] = Inf THEN <<"zero", "fin">>
    ELSE <<"fin", "fin">>

\* The expressions of (As, Bs) at every node.  The factors are Qs = Q/se
\* with Q = Qw/(2.0*np.pi*Tpart[0]), Cs*rpart[0], the Bessel values
\* f(Cs*r) as <<f, 0, r>>, and
\* det = i1(Cs*rpart[0])*k0(Cs*rpart[-1]) + k1(Cs*rpart[0])*i0(Cs*rpart[-1]).
SingleExprsWrongSign(rpart) ==
    LET r0 == rpart.data[1]
        R == rpart.data[Size(rpart)]
        Qs == <<"Qs", 0, 0>>
        Csr0 == <<"Cs*r", 0, r0>>
        det == <<"i1*k0+k1*i0", r0, R>>
    IN IF r0 = 0
       THEN IF R = Inf THEN <<NoMono, Mono(1, {Qs}, {})>>
            ELSE <<Mono(1, {Qs, <<"k0", 0, R>>}, {<<"i0", 0, R>>}),
                   Mono(1, {Qs}, {})>>
       ELSE IF R = Inf
            THEN <<NoMono, Mono(1, {Qs}, {Csr0, <<"k1", 0, r0>>})>>
            ELSE <<Mono(-1, {Qs, <<"k0", 0, R>>}, {Csr0, det}),
                   Mono(1, {Qs, <<"i0", 0, R>>}, {Csr0, det})>>
SingleExprs(rpart) ==
    LET r0 == rpart.data[1]
        R == rpart.data[Size(rpart)]
        Qs == <<"Qs", 0, 0>>
        Csr0 == <<"Cs*r", 0, r0>>
        det == <<"i1*k0+k1*i0", r0, R>>
    IN IF r0 = 0
       THEN IF R = Inf THEN <<NoMono, Mono(1, {Qs}, {})>>
            ELSE <<Mono(-1, {Qs, <<"k0", 0, R>>}, {<<"i0", 0, R>>}),
                   Mono(1, {Qs}, {})>>
       ELSE IF R = Inf
            THEN <<NoMono, Mono(1, {Qs}, {Csr0, <<"k1", 0, r0>>})>>
            ELSE <<Mono(-1, {Qs, <<"k0", 0, R>>}, {Csr0, det}),
                   Mono(1, {Qs, <<"i0", 0, R>>}, {Csr0, det})>>

\* if re < rpart[-1]
BelowOuterClosed(re, last) == re <= last
BelowOuter(re, last) == re < last

\* res[si+ri] = As*i0(Cs*re) + Bs*k0(Cs*re)
HeadVal(zone, node, re, j, coef, rule, env) ==
    Val(zone, node, re,
        AddC(MulC(coef[1], I0Class(env, j)), MulC(coef[2], K0Class(re))),
        coef, rule)

\* The homogeneous aquifer: parts == 1.
SingleZone(s, rad, rpart, Spart, Tpart, env, res0) ==
    IF ~Sized(Spart) THEN LapRaise("IndexError", "single", 0, 0, {res0.buf})
    ELSE IF ~Sized(rpart)
    THEN LapRaise("IndexError", "single", 0, 0, {res0.buf})
    ELSE LET m == Size(rad)
             last == rpart.data[Size(rpart)]
             at(n, j) ==
                 IF BelowOuter(rad.data[j], last)
                 THEN HeadVal(1, s.data[n], rad.data[j], j,
                              SingleCoef(rpart),
                              Rule(SingleRule(rpart), <<>>, <<>>,
                                   SingleExprs(rpart)[1],
                                   SingleExprs(rpart)[2]),
                              env)
                 ELSE ZeroVal
             data == [x \in 1..(Size(s) * m) |->
                         at(((x - 1) \div m) + 1, ((x - 1) % m) + 1)]
         IN LapOut("none", [res0 EXCEPT !.data = data], "single", 0,
                   Cardinality({x \in 1..(Size(s) * m) :
                                  BelowOuter(rad.data[((x - 1) % m) + 1],
                                             last)}),
                   {res0.buf})
\* The value of an expression that is evaluated once: the element of the
\* set that holds it alone.
Only(S) == CHOOSE x \in S : TRUE

\* difsr = np.sqrt(Spart/Tpart) broadcasts: the shapes must agree unless
\* one operand is 0-d; otherwise numpy raises ValueError.
Broadcasts(a, b) == ~Sized(a) \/ ~Sized(b) \/ PyLen(a) = PyLen(b)

\* X[np.logical_not(np.isfinite(X))] = 0.0
MaskXNone(c) == c
MaskX(c) == IF IsFinite(c) THEN c ELSE "zero"

\* res[np.logical_not(np.isfinite(res))] = 0.0
MaskRes(v) == IF IsFinite(v.cls) THEN v ELSE ZeroVal

\* The class of every entry of X = spsolve(M, V) at the node with index n.
SolveClass(env, n) == IF env.xbad = n THEN "nonfin" ELSE "fin"

\* Python's index i into an axis of length n: negative indices count from
\* the end, and an index outside -n..n-1 raises IndexError.
InBounds(i, n) == -n <= i /\ i < n
PyIndex(i, n) == IF i < 0 THEN i + n ELSE i

\* One entry of Mb: sign * scale * f(Cs[z]*r) at the Laplace variable node.
\* scale is "1", "Cs*r" (Cs[z]*r) or "tmp" (tmp[ti]); ti is -1 without tmp.
\* Zones, rows and columns are counted from 0, as in the code.
Bessel(sign, scale, ti, f, z, r, node) ==
    [sign |-> sign, scale |-> scale, ti |-> ti, f |-> f, z |-> z, r |-> r,
     node |-> node]

\* The floats 0.0 and 1.0 as entries of Mb.
MbZero == Bessel(0, "1", -1, "const", 0, 0, <<0, 0>>)
MbOne == Bessel(1, "1", -1, "const", 0, 0, <<0, 0>>)

\* Mb = np.zeros((5, 2*(parts)))
MbAlloc(parts) ==
    [kj \in (0..4) \X (0..(2 * parts - 1)) |-> MbZero]

\* Mb[k, j] = e
Store(Mb, k, j, e, parts) ==
    [Mb EXCEPT ![<<PyIndex(k, 5), PyIndex(j, 2 * parts)>>] = e]

\* Mb[1, 1] = 1.0; Mb[-2, -2] = 1.0
MbDefault(parts) ==
    Store(Store(MbAlloc(parts), 1, 1, MbOne, parts), -2, -2, MbOne, parts)

\* The stores of the boundary conditions at one node, in program order:
\* <<k, j, entry>> for Mb[k, j] = entry.  Cs[-1] is the last zone's.
BoundaryStoresFirstCs(rpart, parts, node) ==
    LET r0 == rpart.data[1]
        R == rpart.data[Size(rpart)]
    IN (IF r0 > 0
        THEN <<<<1, 1, Bessel(1, "Cs*r", -1, "k1", 0, r0, node)>>,
               <<0, 2, Bessel(-1, "Cs*r", -1, "i1", 0, r0, node)>>>>
        ELSE <<>>)
       \o
       (IF R < Inf
        THEN <<<<-3, -1, Bessel(1, "1", -1, "k0", 0, R, node)>>,
               <<-2, -2, Bessel(1, "1", -1, "i0", 0, R, node)>>>>
        ELSE <<>>)
BoundaryStores(rpart, parts, node) ==
    LET r0 == rpart.data[1]
        R == rpart.data[Size(rpart)]
    IN (IF r0 > 0
        THEN <<<<1, 1, Bessel(1, "Cs*r", -1, "k1", 0, r0, node)>>,
               <<0, 2, Bessel(-1, "Cs*r", -1, "i1", 0, r0, node)>>>>
        ELSE <<>>)
       \o
       (IF R < Inf
        THEN <<<<-3, -1, Bessel(1, "1", -1, "k0", parts - 1, R, node)>>,
               <<-2, -2, Bessel(1, "1", -1, "i0", parts - 1, R, node)>>>>
        ELSE <<>>)

\* The stores of the loop body for the interface i, at rpart[i+1].
InterfaceStoresShifted(rpart, i, node) ==
    LET r == rpart.data[i + 2]
    IN <<<<0, 2 * i + 2, Bessel(-1, "1", -1, "k0", i + 1, r, node)>>,
         <<1, 2 * i + 2, Bessel(-1, "1", -1, "i0", i + 1, r, node)>>,
         <<1, 2 * i + 3, Bessel(1, "1", -1, "k1", i + 1, r, node)>>,
         <<2, 2 * i + 1, Bessel(1, "1", -1, "k0", i, r, node)>>,
         <<2, 2 * i + 2, Bessel(-1, "1", -1, "i1", i + 1, r, node)>>,
         <<3, 2 * i, Bessel(1, "1", -1, "i0", i, r, node)>>,
         <<3, 2 * i + 1, Bessel(-1, "tmp", i, "k1", i, r, node)>>,
         <<4, 2 * i, Bessel(1, "tmp", i, "i1", i, r, node)>>>>
InterfaceStores(rpart, i, node) ==
    LET r == rpart.data[i + 2]
    IN <<<<0, 2 * i + 3, Bessel(-1, "1", -1, "k0", i + 1, r, node)>>,
         <<1, 2 * i + 2, Bessel(-1, "1", -1, "i0", i + 1, r, node)>>,
         <<1, 2 * i + 3, Bessel(1, "1", -1, "k1", i + 1, r, node)>>,
         <<2, 2 * i + 1, Bessel(1, "1", -1, "k0", i, r, node)>>,
         <<2, 2 * i + 2, Bessel(-1, "1", -1, "i1", i + 1, r, node)>>,
         <<3, 2 * i, Bessel(1, "1", -1, "i0", i, r, node)>>,
         <<3, 2 * i + 1, Bessel(-1, "tmp", i, "k1", i, r, node)>>,
         <<4, 2 * i, Bessel(1, "tmp", i, "i1", i, r, node)>>>>

\* for i in range(parts-1): the stores of the interfaces from i on.
RECURSIVE InteriorStores(_, _, _, _)
InteriorStores(rpart, parts, i, node) ==
    IF i >= parts - 1 THEN <<>>
    ELSE InterfaceStores(rpart, i, node)
         \o InteriorStores(rpart, parts, i + 1, node)

\* Every store into Mb at one node.
NodeStoresFirstOnly(rpart, parts, node) ==
    (IF node = <<1, 1>> THEN BoundaryStores(rpart, parts, node) ELSE <<>>)
    \o InteriorStores(rpart, parts, 0, node)
NodeStores(rpart, parts, node) ==
    BoundaryStores(rpart, parts, node) \o InteriorStores(rpart, parts, 0, node)

\* Some store of ws indexes Mb out of bounds.
StoresRaise(ws, parts) ==
    \E x \in 1..Len(ws) :
        ~InBounds(ws[x][1], 5) \/ ~InBounds(ws[x][2], 2 * parts)

\* Mb after the stores ws.
RECURSIVE ApplyStores(_, _, _)
ApplyStores(Mb, ws, parts) ==
    IF ws = <<>> THEN Mb
    ELSE ApplyStores(Store(Mb, ws[1][1], ws[1][2], ws[1][3], parts),
                     Tail(ws), parts)

\* M = sps.spdiags(Mb, diagpos, 2*parts, 2*parts): Mb[k, j] lies on the
\* diagonal diagpos[k] = 2 - k, in column j, that is in row j - (2 - k).
\* M[<<row, col>>] is the entry in that row and column.
spdiags(Mb, parts) ==
    [rc \in (0..(2 * parts - 1)) \X (0..(2 * parts - 1)) |->
        IF rc[1] - rc[2] + 2 \in 0..4
        THEN Mb[<<rc[1] - rc[2] + 2, rc[2]>>]
        ELSE MbZero]

\* V = np.zeros(2*(parts)); at a node V[0] = Q/se, with
\* Q = Qw/(2.0*np.pi*Tpart[0]).  Row r of V is V[r + 1].
Pumping(node) == Bessel(1, "Q/s", -1, "const", 0, 0, node)
VAlloc(parts) == [r \in 1..(2 * parts) |-> MbZero]
VStore(V, node) == [r \in DOMAIN V |-> IF r = 1 THEN Pumping(node) ELSE V[r]]

\* The columns with an entry other than 0 in the row of M.
RowCols(M, row) ==
    {rc[2] : rc \in {x \in DOMAIN M : x[1] = row /\ M[x] # MbZero}}

\* The class of X[c], X = spsolve(M, V) with M*X = V, at the n-th node: a
\* row whose only entry is in column c, with right-hand side 0, makes
\* X[c] zero.
XClass(M, V, c, env, n) ==
    IF SolveClass(env, n) = "nonfin" THEN "nonfin"
    ELSE IF \E row \in 0..(Len(V) - 1) :
               /\ V[row + 1] = MbZero
               /\ M[<<row, c>>] # MbZero
               /\ \A c2 \in 0..(Len(V) - 1) :
                     c2 # c => M[<<row, c2>>] = MbZero
    THEN "zero"
    ELSE "fin"

\* The system of the n-th node, assembled in Mb: the matrix, the
\* right-hand side, the classes of X as solved (raw) and after
\* X[~isfinite(X)] = 0.0.
System(Mb, V, parts, node, env, n) ==
    LET M == spdiags(Mb, parts)
        raw == [c \in 1..(2 * parts) |-> XClass(M, V, c - 1, env, n)]
    IN [node |-> node, M |-> M, V |-> V, raw |-> raw,
        X |-> [c \in 1..(2 * parts) |-> MaskX(raw[c])]]

\* The systems of the nodes from the n-th on.  Mb and V are allocated
\* once and keep, from node to node, every entry that is not stored again.
RECURSIVE Systems(_, _, _, _, _, _, _)
Systems(s, rpart, parts, env, n, Mb, V) ==
    IF n > Size(s) THEN <<>>
    ELSE LET now == ApplyStores(Mb, NodeStores(rpart, parts, s.data[n]), parts)
             rhs == VStore(V, s.data[n])
         IN <<System(now, rhs, parts, s.data[n], env, n)>>
            \o Systems(s, rpart, parts, env, n + 1, now, rhs)

\* rpart[i] <= re < rpart[i+1] for the zones i the loop visits (1-based);
\* the chained comparison reads rpart[i+1] only when rpart[i] <= re.
InZoneClosed(rpart, i, re) ==
    rpart.data[i] <= re /\ re <= rpart.data[i + 1]
InZone(rpart, i, re) ==
    rpart.data[i] <= re /\ re < rpart.data[i + 1]

\* The zone whose assignment to res[si+ri] is the last one (0: none).
ZoneOfClamped(rpart, parts, re) ==
    LET hits == {i \in 1..parts : InZone(rpart, i, re)}
    IN IF re < rpart.data[1] THEN 1
       ELSE IF hits = {} THEN 0
       ELSE CHOOSE i \in hits : \A k \in hits : k <= i
ZoneOf(rpart, parts, re) ==
    LET hits == {i \in 1..parts : InZone(rpart, i, re)}
    IN IF hits = {} THEN 0 ELSE CHOOSE i \in hits : \A k \in hits : k <= i

\* The assignments to res[si+ri] at one node, for the first upto radii.
HeadStores(rpart, parts, rad, upto) ==
    Cardinality({ji \in (1..upto) \X (1..parts) :
                   InZone(rpart, ji[2], rad.data[ji[1]])})

\* The zones whose test reads rpart[i+1] past the end of rpart.
PastEnd(rpart, parts, re) ==
    \E i \in 1..parts : rpart.data[i] <= re /\ i + 1 > Size(rpart)

\* The heads of the multi-zone path, from the systems sys of the nodes.
MultiHeads(s, rad, rpart, parts, env, sys) ==
    LET m == Size(rad)
        at(n, j) ==
            LET z == ZoneOf(rpart, parts, rad.data[j])
            IN IF z = 0 THEN ZeroVal
               ELSE HeadVal(z, s.data[n], rad.data[j], j,
                            <<sys[n].X[2 * z - 1], sys[n].X[2 * z]>>,
                            Rule("multi", sys[n].M, sys[n].V, NoMono, NoMono),
                            env)
    IN [x \in 1..(Size(s) * m) |->
           MaskRes(at(((x - 1) \div m) + 1, ((x - 1) % m) + 1))]

\* More than one partition: the equation system, node by node.
MultiZone(s, rad, rpart, Spart, Tpart, env, res0) ==
    LET parts == PyLen(Tpart)
        m == Size(rad)
        alloc == {res0.buf, "V", "Mb"}
    IN IF ~Broadcasts(Spart, Tpart)
       THEN LapRaise("ValueError", "multi", 0, 0, alloc)
       ELSE IF Size(s) = 0 THEN LapOut("none", res0, "multi", 0, 0, alloc)
       ELSE IF ~Sized(rpart) \/ Size(rpart) < parts
       THEN LapRaise("IndexError", "multi", 0, 0, alloc)
       ELSE IF StoresRaise(NodeStores(rpart, parts, s.data[1]), parts)
       THEN LapRaise("IndexError", "multi", 0, 0, alloc)
       ELSE IF \E j \in 1..m : PastEnd(rpart, parts, rad.data[j])
       THEN LET bad == CHOOSE j \in 1..m :
                         /\ PastEnd(rpart, parts, rad.data[j])
                         /\ \A k \in 1..(j - 1) :
                               ~PastEnd(rpart, parts, rad.data[k])
            IN [LapRaise("IndexError", "multi", 1,
                         HeadStores(rpart, parts, rad, bad - 1),
                         alloc \cup {"X"})
                EXCEPT !.sys = SubSeq(Systems(s, rpart, parts, env, 1,
                                              MbDefault(parts),
                                              VAlloc(parts)), 1, 1)]
       ELSE Only({[LapOut("none",
                          [res0 EXCEPT !.data = MultiHeads(s, rad, rpart,
                                                           parts, env, sys)],
                          "multi", Size(s),
                          Size(s) * HeadStores(rpart, parts, rad, m),
                          alloc \cup {"X"})
                   EXCEPT !.sys = sys] :
                    sys \in {Systems(s, rpart, parts, env, 1,
                                     MbDefault(parts), VAlloc(parts))}})

\* lap_transgwflow_cyl(s, rad, rpart, Spart, Tpart, Qw) under the
\* floating-point behaviour env.
lap_transgwflow_cyl(s0, rad0, rpart0, Spart0, Tpart0, env) ==
    LET s == Squeeze(s0)
        rad == Squeeze(rad0)
        rpart == Squeeze(rpart0)
        Spart == Squeeze(Spart0)
        Tpart == Squeeze(Tpart0)
    IN IF ~Sized(Tpart) THEN LapRaise("TypeError", "none", 0, 0, {})
       ELSE IF PyLen(Tpart) = 0
       THEN LapRaise("IndexError", "none", 0, 0, {ResAlloc(s, rad).buf})
       ELSE IF PyLen(Tpart) = 1
       THEN SingleZone(s, rad, rpart, Spart, Tpart, env, ResAlloc(s, rad))
       ELSE MultiZone(s, rad, rpart, Spart, Tpart, env, ResAlloc(s, rad))
---------------------------------------------------------------------------
(* anaflow.laplace.stehfest and anaflow.helper, the collaborators *)

\* An order of the Stehfest algorithm: a Python int, or a float.
IntOrder(n) == [int |-> TRUE, val |-> n]
FloatOrder(n) == [int |-> FALSE, val |-> n]

\* One element of a time-domain result: off + the inversion at time t of
\* the Laplace-space values sum (or the closed form they stand for).
HeadAt(t, sum, off) == [t |-> t, sum |-> sum, off |-> off]

\* What a call of a solution did.  outcome: "return" or the exception;
\* sfLog: the calls of the Stehfest inversion, in order; lap: what the
\* solver did in them; closed: the closed form was evaluated; writes: the
\* buffers stored into.
CallOut(outcome, result, sfLog, lap, closed, writes) ==
    [outcome |-> outcome, result |-> result, sfLog |-> sfLog, lap |-> lap,
     closed |-> closed, writes |-> writes]

NoLap == LapRaise("none", "none", 0, 0, {})

\* The Laplace nodes of all times, s = k*ln2/t as <<t, k>>, time-major.
Nodes(time, bound) ==
    LET b == IF bound.val > 0 THEN bound.val ELSE 0
    IN Vec([x \in 1..(Size(time) * b) |->
               <<time.data[((x - 1) \div b) + 1], ((x - 1) % b) + 1>>],
           "fargs")

\* stehfest(func, time, bound, kwargs): one call of func on all nodes,
\* then, per time and spatial point, the weighted sum over the nodes of
\* that time.  The result is a new array of shape time.shape + the
\* spatial shape.
Inverted(time, bound, kw, lv) ==
    LET b == IF bound.val > 0 THEN bound.val ELSE 0
        n == Size(time)
        m == Size(kw.rad)
        at(i, j) == HeadAt(time.data[i],
                         [k \in 1..b |-> lv.res.data[((i - 1) * b + k - 1) * m + j]],
                         0)
    IN [exc |-> lv.exc,
        lap |-> lv,
        res |-> IF lv.exc # "none" THEN NoArr
                ELSE Arr(<<n>> \o Squeeze(kw.rad).shape,
                         [x \in 1..(n * m) |->
                             at(((x - 1) \div m) + 1, ((x - 1) % m) + 1)],
                         "sf")]
stehfest(time, bound, kw, env) ==
    Only({Inverted(time, bound, kw, lv) :
            lv \in {lap_transgwflow_cyl(Nodes(time, bound), kw.rad, kw.rpart,
                                        kw.Spart, kw.Tpart, env)}})

\* The record of one call of the inversion.
SfCall(time, bound, kw) ==
    [time |-> time.data, bound |-> bound, rad |-> kw.rad.data,
     rpart |-> kw.rpart.data, Spart |-> kw.Spart.data,
     Tpart |-> kw.Tpart.data]

\* well_solution(rad, time, T, S, Qw): the closed form on the grid.
well_solution(rad, time) ==
    LET r == Squeeze(rad)
        m == Size(r)
        at(i, j) == HeadAt(time.data[i],
                         <<Val(0, <<time.data[i], 0>>, r.data[j], "fin",
                               <<"fin", "fin">>, "well")>>, 0)
    IN Arr(time.shape \o r.shape,
           [x \in 1..(Size(time) * m) |->
               at(((x - 1) \div m) + 1, ((x - 1) % m) + 1)],
           "well")

---------------------------------------------------------------------------
(* the tail shared by theis, ext_theis2D, ext_theis3D and diskmodel *)

\* np.diag: the diagonal of a 2-d array; of a 1-d array, the square
\* matrix with it on the diagonal.
DiagRow(res) ==
    Arr(<<res.shape[1]>>, [k \in 1..res.shape[1] |-> res.data[k]], "diag")
Diag(res) ==
    IF Len(res.shape) = 2
    THEN LET n == IF res.shape[1] < res.shape[2] THEN res.shape[1]
                  ELSE res.shape[2]
         IN Arr(<<n>>, [k \in 1..n |-> res.data[(k - 1) * res.shape[2] + k]],
                "diag")
    ELSE LET n == Size(res)
         IN Arr(<<n, n>>,
                [x \in 1..(n * n) |->
                    IF (x - 1) \div n = (x - 1) % n
                    THEN res.data[((x - 1) % n) + 1]
                    ELSE HeadAt(0, <<>>, 0)],
                "diag")

\* if not struc_grid and len(grid_shape) > 0:
\*     res = np.copy(np.diag(res).reshape(grid_shape))
Unstructured(res, struc_grid, grid_shape) ==
    IF ~struc_grid /\ Len(grid_shape) > 0
    THEN [Diag(res) EXCEPT !.shape = grid_shape, !.buf = "copy"]
    ELSE res

\* res += hinf
AddHinfFirst(res, hinf) ==
    [res EXCEPT !.data = [k \in 1..Len(@) |->
                             IF k = 1 THEN [@[k] EXCEPT !.off = @ + hinf]
                             ELSE @[k]]]
AddHinf(res, hinf) ==
    [res EXCEPT !.data = [k \in 1..Len(@) |-> [@[k] EXCEPT !.off = @ + hinf]]]

\* The call of the inversion and what follows it.
Inverse(time, bound, kw, struc_grid, grid_shape, hinf, sv) ==
    IF sv.exc # "none"
    THEN CallOut(sv.exc, NoArr, <<SfCall(time, bound, kw)>>, sv.lap, FALSE,
                 sv.lap.writes)
    ELSE Only({CallOut("return", res, <<SfCall(time, bound, kw)>>, sv.lap,
                       FALSE, sv.lap.writes \cup {res.buf}) :
                 res \in {AddHinf(Unstructured(sv.res, struc_grid,
                                               grid_shape), hinf)}})
Invert(rad, time, bound, rpart, Spart, Tpart, struc_grid, grid_shape, hinf, env) ==
    LET kw == [rad |-> rad, rpart |-> rpart, Spart |-> Spart, Tpart |-> Tpart]
    IN Only({Inverse(time, bound, kw, struc_grid, grid_shape, hinf, sv) :
               sv \in {stehfest(time, bound, kw, env)}})

Raise(exc) == CallOut(exc, NoArr, <<>>, NoLap, FALSE, {})
---------------------------------------------------------------------------
(* the input checks; each yields the first complaint, or "ok" *)

\* The first complaint of a list of checks made in order.
RECURSIVE First(_)
First(cs) ==
    IF cs = <<>> THEN "ok"
    ELSE IF cs[1] # "ok" THEN cs[1] ELSE First(Tail(cs))

\* if rwell < 0.0 / if rinf <= rwell
CheckWell(rwell, rinf) ==
    IF rwell < 0 THEN "wellradius"
    ELSE IF rinf <= rwell THEN "upper boundary" ELSE "ok"

\* if np.any(rad < rwell) or np.any(rad <= 0.0)
CheckRad(rad, rwell) ==
    IF AnyLt(rad, rwell) \/ AnyLe(rad, 0) THEN "radii" ELSE "ok"

\* if np.any(time <= 0.0)
CheckTime(time) == IF AnyLe(time, 0) THEN "times" ELSE "ok"

\* if not struc_grid and not rad.shape == time.shape
CheckGrid(struc_grid, rad, time) ==
    IF ~struc_grid /\ rad.shape # time.shape THEN "unstructured" ELSE "ok"

\* x <= 0.0 for a scalar parameter
CheckPositive(x, what) == IF x <= 0 THEN what ELSE "ok"

\* isinstance(stehfestn, int), stehfestn <= 1, stehfestn % 2 != 0
CheckStehfestnNoEven(n) ==
    IF ~n.int THEN "stehfest integer"
    ELSE IF n.val <= 1 THEN "stehfest > 1" ELSE "ok"
CheckStehfestn(n) ==
    IF ~n.int THEN "stehfest integer"
    ELSE IF n.val <= 1 THEN "stehfest > 1"
    ELSE IF n.val % 2 # 0 THEN "stehfest even" ELSE "ok"

\* isinstance(parts, int), parts <= 1
CheckParts(n) ==
    IF ~n.int THEN "parts integer"
    ELSE IF n.val <= 1 THEN "parts >= 2" ELSE "ok"

\* The zone radii: sorted, above the well radius, below the outer radius.
CheckZonesNoOuter(Rpart, rwell, rinf) ==
    IF ~(\A i \in 1..(Size(Rpart) - 1) : Rpart.data[i] < Rpart.data[i + 1])
    THEN "zones sorted"
    ELSE IF AnyLe(Rpart, rwell) THEN "zones > wellradius" ELSE "ok"
CheckZones(Rpart, rwell, rinf) ==
    IF ~(\A i \in 1..(Size(Rpart) - 1) : Rpart.data[i] < Rpart.data[i + 1])
    THEN "zones sorted"
    ELSE IF AnyLe(Rpart, rwell) THEN "zones > wellradius"
    ELSE IF AnyGe(Rpart, rinf) THEN "zones < outer radius" ELSE "ok"

---------------------------------------------------------------------------
(* diskmodel *)

DiskmodelCheck(a, rad, time) ==
    First(<<CheckWell(a.rwell, a.rinf),
            CheckZones(a.Rpart, a.rwell, a.rinf),
            CheckRad(rad, a.rwell),
            CheckTime(time),
            CheckGrid(a.struc_grid, rad, time),
            IF AnyLe(a.Tpart, 0) THEN "transmissivities" ELSE "ok",
            IF AnyLe(a.Spart, 0) THEN "storages" ELSE "ok",
            CheckStehfestn(a.stehfestn)>>)

diskmodel(a, env) ==
    LET sq == Squeeze(a.rad)
        time == Flatten(np_array(a.time, "time_copy"))
        Tpart == np_array(a.Tpart, "Tpart_copy")
        Spart == np_array(a.Spart, "Spart_copy")
        Rpart == np_array(a.Rpart, "Rpart_copy")
        grid_shape == sq.shape
        rad == IF a.struc_grid THEN sq ELSE Flatten(sq)
        rpart == Vec(<<a.rwell>> \o Rpart.data \o <<a.rinf>>, "rpart_new")
    IN IF DiskmodelCheck(a, rad, time) # "ok" THEN Raise("ValueError")
       ELSE Invert(rad, time, a.stehfestn, rpart, Spart, Tpart,
                   a.struc_grid, grid_shape, a.hinf, env)

---------------------------------------------------------------------------
(* theis *)

TheisCheck(a, rad, time) ==
    First(<<CheckWell(a.rwell, a.rinf),
            CheckRad(rad, a.rwell),
            CheckTime(time),
            CheckGrid(a.struc_grid, rad, time),
            CheckPositive(a.T, "transmissivity"),
            CheckPositive(a.S, "storage"),
            CheckStehfestn(a.stehfestn)>>)

\* if rwell == 0.0 and rinf == np.inf
TheisClosed(a) == a.rwell = 0 /\ a.rinf = Inf

theis(a, env) ==
    LET sq == Squeeze(a.rad)
        time == Flatten(np_array(a.time, "time_copy"))
        grid_shape == sq.shape
        rad == IF a.struc_grid THEN sq ELSE Flatten(sq)
    IN IF TheisCheck(a, rad, time) # "ok" THEN Raise("ValueError")
       ELSE IF TheisClosed(a)
       THEN LET res == AddHinf(Unstructured(well_solution(rad, time),
                                            a.struc_grid, grid_shape), a.hinf)
            IN CallOut("return", res, <<>>, NoLap, TRUE, {res.buf})
       ELSE Invert(rad, time, a.stehfestn, Vec(<<a.rwell, a.rinf>>, "rpart_new"),
                   Vec(<<a.S>>, "Spart_new"), Vec(<<a.T>>, "Tpart_new"),
                   a.struc_grid, grid_shape, a.hinf, env)
---------------------------------------------------------------------------
(* ext_theis2D and ext_theis3D *)

\* An optional float: None, or a value.
None == [none |-> TRUE, val |-> 0]
Some(v) == [none |-> FALSE, val |-> v]

\* radii(parts, rwell, rinf, rlast): parts + 1 increasing boundaries from
\* rwell to rinf.
radii(parts, rwell, rinf) ==
    Vec(<<rwell>> \o Upfrom(rwell + 1, parts - 1) \o <<rinf>>, "rpart_new")

\* T_CG(fpart, ...) and K_CG(fpart, ...): one positive value per zone.
T_CG(parts, TG) == Vec([i \in 1..parts |-> TG], "Tpart_new")

\* if not 0.0 < T_err < 1.0; the error is counted in hundredths.
CheckErr(err) == IF ~(0 < err /\ err < 100) THEN "relative error" ELSE "ok"

ExtTheis2DCheck(a, rad, time) ==
    First(<<CheckWell(a.rwell, a.rinf),
            CheckRad(rad, a.rwell),
            CheckTime(time),
            CheckGrid(a.struc_grid, rad, time),
            CheckPositive(a.TG, "transmissivity"),
            IF ~a.Twell.none /\ a.Twell.val <= 0 THEN "well transmissivity"
            ELSE "ok",
            CheckPositive(a.sig2, "variance"),
            CheckPositive(a.corr, "correlationlength"),
            CheckPositive(a.S, "storage"),
            CheckPositive(a.prop, "proportionalityfactor"),
            CheckStehfestn(a.stehfestn),
            CheckParts(a.parts),
            CheckErr(a.T_err)>>)

ext_theis2D(a, env) ==
    LET sq == Squeeze(a.rad)
        time == Flatten(np_array(a.time, "time_copy"))
        grid_shape == sq.shape
        rad == IF a.struc_grid THEN sq ELSE Flatten(sq)
    IN IF ExtTheis2DCheck(a, rad, time) # "ok" THEN Raise("ValueError")
       ELSE Invert(rad, time, a.stehfestn,
                   radii(a.parts.val, a.rwell, a.rinf),
                   Vec([i \in 1..a.parts.val |-> a.S], "Spart_new"),
                   T_CG(a.parts.val, a.TG),
                   a.struc_grid, grid_shape, a.hinf, env)

\* Kwell: "KH", "KA", a float, or anything else.
CheckKwell(Kwell) ==
    IF Kwell.kind \notin {"KA", "KH", "float"} THEN "well-conductivity type"
    ELSE IF Kwell.kind = "float" /\ Kwell.val <= 0 THEN "well-conductivity"
    ELSE "ok"

ExtTheis3DCheck(a, rad, time) ==
    First(<<CheckWell(a.rwell, a.rinf),
            CheckRad(rad, a.rwell),
            CheckTime(time),
            CheckGrid(a.struc_grid, rad, time),
            CheckKwell(a.Kwell),
            CheckPositive(a.KG, "conductivity"),
            CheckPositive(a.sig2, "variance"),
            CheckPositive(a.corr, "correlationlength"),
            CheckPositive(a.S, "storage"),
            CheckPositive(a.L, "aquifer-thickness"),
            CheckPositive(a.prop, "proportionalityfactor"),
            CheckStehfestn(a.stehfestn),
            CheckParts(a.parts),
            CheckErr(a.K_err)>>)

ext_theis3D(a, env) ==
    LET sq == Squeeze(a.rad)
        time == Flatten(np_array(a.time, "time_copy"))
        grid_shape == sq.shape
        rad == IF a.struc_grid THEN sq ELSE Flatten(sq)
    IN IF ExtTheis3DCheck(a, rad, time) # "ok" THEN Raise("ValueError")
       ELSE Invert(rad, time, a.stehfestn,
                   radii(a.parts.val, a.rwell, a.rinf),
                   Vec([i \in 1..a.parts.val |-> a.S], "Spart_new"),
                   T_CG(a.parts.val, a.KG),
                   a.struc_grid, grid_shape, a.hinf, env)

---------------------------------------------------------------------------
(* thiem, ext_thiem2D and ext_thiem3D *)

\* A steady-state head is Q * sum + off, where sum is a formal sum of
\* special-function values: a function from atoms <<name, x, y>> to their
\* non-zero integer coefficients.  Equal atoms cancel as x - x = 0 does.
EmptySum == [x \in {} |-> 0]

AddTerm(f, atom, c) ==
    LET old == IF atom \in DOMAIN f THEN f[atom] ELSE 0
    IN IF old + c = 0
       THEN [x \in (DOMAIN f) \ {atom} |-> f[x]]
       ELSE [x \in (DOMAIN f) \cup {atom} |->
                IF x = atom THEN old + c ELSE f[x]]

\* f(x) - f(y), added to a sum
AddDiff(f, name, x, y) ==
    AddTerm(AddTerm(f, <<name, x, 0>>, 1), <<name, y, 0>>, -1)

Steady(cls, sum, off) == [cls |-> cls, sum |-> sum, off |-> off]

RECURSIVE GCD(_, _)
GCD(x, y) == IF y = 0 THEN x ELSE GCD(y, x % y)

\* np.log(rad/Rref): the quotient is 1.0, and its logarithm 0.0, exactly
\* when rad == Rref.
LogQuotient(r, Rref) ==
    LET g == GCD(r, Rref)
    IN IF r \div g = Rref \div g THEN EmptySum
       ELSE AddTerm(EmptySum, <<"log", r \div g, Rref \div g>>, 1)

\* The array of the heads vals, shaped like the squeezed radii.
OverRadii(rad0, vals) == Arr(Squeeze(rad0).shape, vals, "res")

Steadily(outcome, result) ==
    CallOut(outcome, result, <<>>, NoLap, FALSE,
            IF outcome = "return" THEN {result.buf} ELSE {})

thiem(a) ==
    LET at(re) == Steady("fin", LogQuotient(re, a.Rref), a.href)
    IN IF First(<<CheckPositive(a.Rref, "reference-radius"),
                  IF AnyLe(Squeeze(a.rad), 0) THEN "radii" ELSE "ok",
                  CheckPositive(a.T, "transmissivity")>>) # "ok"
       THEN Steadily("ValueError", NoArr)
       ELSE Steadily("return", OverRadii(a.rad,
                   [j \in 1..Size(a.rad) |-> at(a.rad.data[j])]))

\* chi = np.log(Twell) - np.log(TG), or -sig2/2.0: its sign.
Chi2D(a) ==
    IF a.Twell.none THEN -1
    ELSE IF a.Twell.val < a.TG THEN -1
    ELSE IF a.Twell.val = a.TG THEN 0 ELSE 1

\* expi(-chi/(1.+C*r**2)): Ei has a pole at 0.
ExpiClass(chi) == IF chi = 0 THEN "nonfin" ELSE "fin"

\* exp1(chi/(1.+C*r**2) - chi): the argument has the sign of -chi; the
\* real E1 has a pole at 0 and is nan on the negative axis.
Exp1Class(chi) == IF chi < 0 THEN "fin" ELSE "nonfin"

ExtThiem2DCheck(a) ==
    First(<<CheckPositive(a.Rref, "upper boundary"),
            IF AnyLe(Squeeze(a.rad), 0) THEN "radii" ELSE "ok",
            CheckPositive(a.TG, "transmissivity"),
            IF ~a.Twell.none /\ a.Twell.val <= 0 THEN "well transmissivity"
            ELSE "ok",
            CheckPositive(a.sig2, "variance"),
            CheckPositive(a.corr, "correlationlength"),
            CheckPositive(a.prop, "proportionalityfactor")>>)

ext_thiem2D(a) ==
    LET chi == Chi2D(a)
        cls == AddC(AddC(ExpiClass(chi), Exp1Class(chi)),
                    AddC(ExpiClass(chi), Exp1Class(chi)))
        at(re) ==
            Steady(cls,
                   AddTerm(AddTerm(AddTerm(AddTerm(EmptySum,
                       <<"expi", re, 0>>, -1),
                       <<"exp(-chi)*exp1", re, 0>>, -1),
                       <<"expi", a.Rref, 0>>, 1),
                       <<"exp(-chi)*exp1", a.Rref, 0>>, 1),
                   a.href)
    IN IF ExtThiem2DCheck(a) # "ok" THEN Steadily("ValueError", NoArr)
       ELSE Steadily("return", OverRadii(a.rad,
                   [j \in 1..Size(a.rad) |-> at(a.rad.data[j])]))

\* if not 0.0 < e <= 1.0; e is counted in hundredths.
CheckAniso(e) == IF ~(0 < e /\ e <= 100) THEN "anisotropy-ratio" ELSE "ok"

ExtThiem3DCheck(a) ==
    First(<<CheckPositive(a.Rref, "upper boundary"),
            IF AnyLe(Squeeze(a.rad), 0) THEN "radii" ELSE "ok",
            CheckKwell(a.Kwell),
            CheckPositive(a.KG, "transmissivity"),
            CheckPositive(a.sig2, "variance"),
            CheckPositive(a.corr, "correlationlength"),
            CheckPositive(a.L, "aquifer-thickness"),
            CheckAniso(a.e),
            CheckPositive(a.prop, "proportionalityfactor")>>)

ext_thiem3D(a) ==
    LET at(re) ==
            Steady("fin",
                   AddDiff(AddDiff(AddDiff(AddDiff(AddDiff(AddDiff(EmptySum,
                       "sinh(chi)*log(sub+1)", re, a.Rref),
                       "-sinh(chi)/sub", re, a.Rref),
                       "(1-cosh(chi))*log(sub)", re, a.Rref),
                       "-(1-cosh(chi))*0.50/sub**2", re, a.Rref),
                       "-(1-cosh(chi))*0.25/sub**4", re, a.Rref),
                       "exp(-chi)*log", re, a.Rref),
                   a.href)
    IN IF ExtThiem3DCheck(a) # "ok" THEN Steadily("ValueError", NoArr)
       ELSE Steadily("return", OverRadii(a.rad,
                   [j \in 1..Size(a.rad) |-> at(a.rad.data[j])]))

---------------------------------------------------------------------------
(* the inputs of the model *)

\* The floating-point behaviours of a call on nrad radii and nnodes nodes.
Envs(nnodes, nrad) == [xbad : 0..nnodes, ovf : 0..nrad]

\* The shapes a caller may give an array of n radii.
RadShapes(n) == IF n = 1 THEN {<<>>, <<1>>} ELSE {<<n>>, <<1, n>>}

DiskArgs(rad, time, Tpart, Spart, Rpart, struc_grid, rwell, rinf, hinf, stehfestn) ==
    [rad |-> rad, time |-> Vec(time, "time"), Tpart |-> Vec(Tpart, "Tpart"),
     Spart |-> Vec(Spart, "Spart"), Rpart |-> Vec(Rpart, "Rpart"),
     struc_grid |-> struc_grid, rwell |-> rwell, rinf |-> rinf,
     hinf |-> hinf, stehfestn |-> stehfestn]

---------------------------------------------------------------------------
(* the state: the last call, what it did, and the caller's arrays after it *)

VARIABLES fn, args, env, out, heap

vars == <<fn, args, env, out, heap>>

\* The caller's arrays after a call that stored into the buffers writes.
HeapAfter(a, names, writes) ==
    [b \in names |->
        IF b \in writes THEN [i \in 1..Size(a[b]) |-> 0] ELSE a[b].data]

Init ==
    /\ fn = "none"
    /\ args = <<>>
    /\ env = NoEnv
    /\ out = Raise("none")
    /\ heap = <<>>

DiskBuffers == {"rad", "time", "Tpart", "Spart", "Rpart"}

DiskStep(a, e) ==
    /\ fn' = "diskmodel"
    /\ args' = a
    /\ env' = e
    /\ out' = diskmodel(a, e)
    /\ heap' = HeapAfter(a, DiskBuffers, diskmodel(a, e).writes)

\* Calls that vary the geometry: the well, the outer radius, the zone
\* radii and the radii asked for.
DiskGeometry ==
    \E rad \in SeqsOver({0, 1, 3}, 1, MaxLen), n \in 1..MaxLen,
       Rpart \in SeqsOver({1, 3, 4}, 0, MaxParts - 1), sg \in BOOLEAN,
       rwell \in {-1, 0, 2}, rinf \in {2, 4, Inf} :
        DiskStep(DiskArgs(Vec(rad, "rad"), Upfrom(1, n), Ones(Len(Rpart) + 1),
                          Ones(Len(Rpart) + 1), Rpart, sg, rwell, rinf, 1,
                          IntOrder(2)), NoEnv)

\* Calls that vary the zone properties and their number.
DiskProperties ==
    \E n \in 1..MaxLen, nt \in 1..MaxParts, ns \in 1..MaxParts,
       k \in 0..(MaxParts - 1), sg \in BOOLEAN :
        \E Tpart \in OnesOrOneZero(nt), Spart \in OnesOrOneZero(ns) :
            DiskStep(DiskArgs(Vec(Upfrom(1, n), "rad"), Upfrom(1, n), Tpart,
                              Spart, Upfrom(2, k), sg, 0, Inf, 0, IntOrder(2)),
                     NoEnv)

\* Calls that vary the times, the order, the reference head and the shape
\* of the radii.
DiskControl ==
    \E n \in 1..MaxLen, time \in SeqsOver({0, 1, 2}, 1, MaxLen),
       sg \in BOOLEAN, hinf \in {0, 1, 2},
       order \in {IntOrder(1), IntOrder(2), IntOrder(3), IntOrder(4),
                  FloatOrder(2)} :
        \E shape \in RadShapes(n) :
            DiskStep(DiskArgs(Arr(shape, Upfrom(1, n), "rad"), time, <<1, 2>>,
                              <<1, 1>>, <<2>>, sg, 0, Inf, hinf, order), NoEnv)

\* Valid calls, made under every floating-point behaviour.
DiskNumerics ==
    \E rad \in SeqsOver({1, 3}, 1, MaxLen), sg \in BOOLEAN, rinf \in {4, Inf} :
        \E e \in Envs(2 * Len(rad), Len(rad)) :
            DiskStep(DiskArgs(Vec(rad, "rad"), Upfrom(1, Len(rad)), <<1, 2>>,
                              <<1, 1>>, <<2>>, sg, 0, rinf, 1, IntOrder(2)), e)

Call_diskmodel ==
    /\ fn = "none"
    /\ \/ DiskGeometry
       \/ DiskProperties
       \/ DiskControl
       \/ DiskNumerics

\* The times 1, 2, ..., m, and the same with one of them 0.
Times(m) == {Upfrom(1, m)} \cup {[Upfrom(1, m) EXCEPT ![k] = 0] : k \in 1..m}

TheisStep(a) ==
    /\ fn' = "theis"
    /\ args' = a
    /\ env' = NoEnv
    /\ out' = theis(a, NoEnv)
    /\ heap' = HeapAfter(a, {"rad", "time"}, theis(a, NoEnv).writes)

Call_theis ==
    /\ fn = "none"
    /\ \E n \in 1..MaxLen, m \in 1..MaxLen, TS \in {<<1, 1>>, <<0, 1>>, <<1, 0>>},
          sg \in BOOLEAN, rwell \in {-1, 0, 1}, rinf \in {1, 4, Inf},
          hinf \in {0, 1}, order \in {IntOrder(2), IntOrder(3)} :
        \E shape \in RadShapes(n), time \in Times(m) :
            TheisStep([rad |-> Arr(shape, Upfrom(1, n), "rad"),
                       time |-> Vec(time, "time"), T |-> TS[1], S |-> TS[2],
                       struc_grid |-> sg, rwell |-> rwell, rinf |-> rinf,
                       hinf |-> hinf, stehfestn |-> order])

ExtTheis2DStep(a) ==
    /\ fn' = "ext_theis2D"
    /\ args' = a
    /\ env' = NoEnv
    /\ out' = ext_theis2D(a, NoEnv)
    /\ heap' = HeapAfter(a, {"rad", "time"}, ext_theis2D(a, NoEnv).writes)

ExtTheis2DArgs(rad, time, TG, sig2, corr, S, sg, rwell, rinf, hinf, Twell, T_err, prop, order, parts) ==
    [rad |-> rad, time |-> Vec(time, "time"), TG |-> TG, sig2 |-> sig2,
     corr |-> corr, S |-> S, struc_grid |-> sg, rwell |-> rwell,
     rinf |-> rinf, hinf |-> hinf, Twell |-> Twell, T_err |-> T_err,
     prop |-> prop, stehfestn |-> order, parts |-> parts]

Call_ext_theis2D ==
    /\ fn = "none"
    /\ \/ \E n \in 1..MaxLen, m \in 1..MaxLen, sg \in BOOLEAN,
             hinf \in {0, 1}, T_err \in {0, 1, 50, 100, 150},
             order \in {IntOrder(1), IntOrder(2), IntOrder(3), FloatOrder(2)},
             parts \in {IntOrder(1), IntOrder(2), IntOrder(MaxParts),
                        FloatOrder(2)} :
            \E shape \in RadShapes(n), time \in Times(m) :
                ExtTheis2DStep(ExtTheis2DArgs(Arr(shape, Upfrom(1, n), "rad"),
                    time, 1, 1, 1, 1, sg, 0, Inf, hinf, None, T_err, 1,
                    order, parts))
       \/ \E TG \in {0, 1}, sig2 \in {0, 1}, corr \in {0, 1}, S \in {0, 1},
             prop \in {0, 1}, Twell \in {None, Some(0), Some(1)},
             rwell \in {-1, 0, 1}, rinf \in {1, 50, Inf},
             T_err \in {1, 100} :
            ExtTheis2DStep(ExtTheis2DArgs(Vec(<<1, 2>>, "rad"), <<1, 2>>, TG,
                sig2, corr, S, TRUE, rwell, rinf, 0, Twell, T_err, prop,
                IntOrder(2), IntOrder(2)))

ExtTheis3DStep(a) ==
    /\ fn' = "ext_theis3D"
    /\ args' = a
    /\ env' = NoEnv
    /\ out' = ext_theis3D(a, NoEnv)
    /\ heap' = HeapAfter(a, {"rad", "time"}, ext_theis3D(a, NoEnv).writes)

Kwells ==
    {[kind |-> "KH", val |-> 0], [kind |-> "KA", val |-> 0],
     [kind |-> "float", val |-> 1], [kind |-> "float", val |-> 0],
     [kind |-> "other", val |-> 1]}

ExtTheis3DArgs(rad, time, KG, sig2, corr, e, S, L, sg, rwell, rinf, hinf, Kwell, K_err, prop, order, parts) ==
    [rad |-> rad, time |-> Vec(time, "time"), KG |-> KG, sig2 |-> sig2,
     corr |-> corr, e |-> e, S |-> S, L |-> L, struc_grid |-> sg,
     rwell |-> rwell, rinf |-> rinf, hinf |-> hinf, Kwell |-> Kwell,
     K_err |-> K_err, prop |-> prop, stehfestn |-> order, parts |-> parts]

Call_ext_theis3D ==
    /\ fn = "none"
    /\ \/ \E n \in 1..MaxLen, m \in 1..MaxLen, sg \in BOOLEAN,
             hinf \in {0, 1}, K_err \in {0, 1, 50, 100, 150},
             order \in {IntOrder(1), IntOrder(2), IntOrder(3), FloatOrder(2)},
             parts \in {IntOrder(1), IntOrder(2), IntOrder(MaxParts),
                        FloatOrder(2)} :
            \E shape \in RadShapes(n), time \in Times(m) :
                ExtTheis3DStep(ExtTheis3DArgs(Arr(shape, Upfrom(1, n), "rad"),
                    time, 1, 1, 1, 100, 1, 1, sg, 0, Inf, hinf,
                    [kind |-> "KH", val |-> 0], K_err, 1, order, parts))
       \/ \E KG \in {0, 1}, sig2 \in {0, 1}, corr \in {0, 1}, S \in {0, 1},
             L \in {0, 1}, prop \in {0, 1}, Kwell \in Kwells,
             rwell \in {-1, 0}, rinf \in {0, Inf}, K_err \in {1, 100} :
            ExtTheis3DStep(ExtTheis3DArgs(Vec(<<1, 2>>, "rad"), <<1, 2>>, KG,
                sig2, corr, 100, S, L, TRUE, rwell, rinf, 0, Kwell, K_err,
                prop, IntOrder(2), IntOrder(2)))

ThiemStep(f, a, o) ==
    /\ fn' = f
    /\ args' = a
    /\ env' = NoEnv
    /\ out' = o
    /\ heap' = HeapAfter(a, {"rad"}, o.writes)

Call_thiem ==
    /\ fn = "none"
    /\ \E rad \in SeqsOver({0, 1, 2, 3}, 1, MaxLen), Rref \in {0, 1, 2, 3},
          T \in {0, 1}, href \in {0, 1, 5} :
        LET a == [rad |-> Vec(rad, "rad"), Rref |-> Rref, T |-> T,
                  href |-> href]
        IN ThiemStep("thiem", a, thiem(a))

Call_ext_thiem2D ==
    /\ fn = "none"
    /\ \E rad \in SeqsOver({0, 1, 2}, 1, MaxLen), Rref \in {0, 1, 2},
          TG \in {0, 2}, Twell \in {None, Some(0), Some(1), Some(2), Some(3)},
          sig2 \in {0, 1}, corr \in {0, 1}, prop \in {0, 1}, href \in {0, 5} :
        LET a == [rad |-> Vec(rad, "rad"), Rref |-> Rref, TG |-> TG,
                  sig2 |-> sig2, corr |-> corr, href |-> href,
                  Twell |-> Twell, prop |-> prop]
        IN ThiemStep("ext_thiem2D", a, ext_thiem2D(a))

Call_ext_thiem3D ==
    /\ fn = "none"
    /\ \E rad \in SeqsOver({0, 1, 2}, 1, MaxLen), Rref \in {0, 1, 2},
          KG \in {0, 1}, Kwell \in Kwells, e \in {0, 50, 100, 150},
          pos \in {<<1, 1, 1, 1>>, <<0, 1, 1, 1>>, <<1, 0, 1, 1>>,
                   <<1, 1, 0, 1>>, <<1, 1, 1, 0>>}, href \in {0, 5} :
        LET a == [rad |-> Vec(rad, "rad"), Rref |-> Rref, KG |-> KG,
                  sig2 |-> pos[1], corr |-> pos[2], e |-> e, L |-> pos[3],
                  href |-> href, Kwell |-> Kwell, prop |-> pos[4]]
        IN ThiemStep("ext_thiem3D", a, ext_thiem3D(a))

LapBuffers == {"s", "rad", "rpart", "Spart", "Tpart"}

\* A call of the solver by a user of the module.
LapDirect(a, e) ==
    LET lv == lap_transgwflow_cyl(a.s, a.rad, a.rpart, a.Spart, a.Tpart, e)
    IN CallOut(IF lv.exc = "none" THEN "return" ELSE lv.exc, lv.res, <<>>,
               lv, FALSE, lv.writes)

\* Direct calls of the solver: one or two Laplace nodes, partitions of
\* every length from one boundary on, one to MaxParts zone properties.
Call_lap_transgwflow_cyl ==
    /\ fn = "none"
    /\ \E s \in {<<<<1, 1>>>>, <<<<1, 1>>, <<1, 2>>>>, <<<<1, 2>>, <<1, 1>>>>},
          rad \in SeqsOver({0, 1, 3}, 1, MaxLen),
          r0 \in {0, 1}, k \in 0..MaxParts, tl \in {<<>>, <<Inf>>, <<9>>},
          ns \in 1..MaxParts, nt \in 1..MaxParts :
        \E e \in Envs(1, 1) :
            LET a == [s |-> Vec(s, "s"), rad |-> Vec(rad, "rad"),
                      rpart |-> Vec(<<r0>> \o Upfrom(2, k) \o tl, "rpart"),
                      Spart |-> Vec(Ones(ns), "Spart"),
                      Tpart |-> Vec(Ones(nt), "Tpart")]
            IN /\ fn' = "lap_transgwflow_cyl"
               /\ args' = a
               /\ env' = e
               /\ out' = LapDirect(a, e)
               /\ heap' = HeapAfter(a, LapBuffers, LapDirect(a, e).writes)

Next ==
    \/ Call_thiem
    \/ Call_ext_thiem2D
    \/ Call_ext_thiem3D
    \/ Call_theis
    \/ Call_ext_theis2D
    \/ Call_ext_theis3D
    \/ Call_diskmodel
    \/ Call_lap_transgwflow_cyl

Spec == Init /\ [][Next]_vars

---------------------------------------------------------------------------
(* the two branches of lap_transgwflow_cyl, each run by itself *)

\* The arrays a branch is run on: n zones with Tpart and Spart
\* one-dimensional, whatever n is.
BranchArgs(s, rad, rpart, n) ==
    [s |-> Vec(s, "s"), rad |-> Vec(rad, "rad"), rpart |-> Vec(rpart, "rpart"),
     Spart |-> Vec(Ones(n), "Spart"), Tpart |-> Vec(Ones(n), "Tpart")]

\* The branch has run on a and ended as lv.
BranchStep(name, a, e, lv) ==
    /\ fn' = name
    /\ args' = a
    /\ env' = e
    /\ out' = CallOut(IF lv.exc = "none" THEN "return" ELSE lv.exc, lv.res,
                      <<>>, lv, FALSE, lv.writes)
    /\ heap' = HeapAfter(a, LapBuffers, lv.writes)

\* The nodes, radii and outermost boundaries the branches are run on.
BranchNodes == {<<<<1, 1>>>>, <<<<1, 1>>, <<1, 2>>>>, <<<<1, 2>>, <<1, 1>>>>}
BranchRadii == SeqsOver({0, 1, 3, 9}, 1, MaxLen)
BranchOuter == {9, Inf}

\* The branch of the homogeneous aquifer (if parts == 1) on one zone
\* between rpart[0] (zero or positive) and rpart[-1] (finite or infinite).
Run_SingleZone ==
    /\ fn = "none"
    /\ \E s \in BranchNodes, rad \in BranchRadii, r0 \in {0, 1, 2},
          R \in BranchOuter, e \in Envs(1, 1) :
        LET a == BranchArgs(s, rad, <<r0, R>>, 1)
        IN BranchStep("SingleZone", a, e,
                      SingleZone(Squeeze(a.s), Squeeze(a.rad), a.rpart,
                                 a.Spart, a.Tpart, e,
                                 ResAlloc(Squeeze(a.s), Squeeze(a.rad))))

\* The branch of the equation system (else) on one to MaxParts zones.
Run_MultiZone ==
    /\ fn = "none"
    /\ \E s \in BranchNodes, rad \in BranchRadii, r0 \in {0, 1, 2},
          R \in BranchOuter, n \in 1..MaxParts, e \in Envs(1, 1) :
        LET a == BranchArgs(s, rad,
                            <<r0>> \o Upfrom(IF r0 < 2 THEN 2 ELSE 3, n - 1)
                                \o <<R>>, n)
        IN BranchStep("MultiZone", a, e,
                      MultiZone(Squeeze(a.s), Squeeze(a.rad), a.rpart,
                                a.Spart, a.Tpart, e,
                                ResAlloc(Squeeze(a.s), Squeeze(a.rad))))

NextBranch ==
    \/ Run_SingleZone
    \/ Run_MultiZone

SpecBranch == Init /\ [][NextBranch]_vars

---------------------------------------------------------------------------
(* C1 *)

\* The invalid-parameter conditions of diskmodel.
DiskInvalid(a) ==
    \/ a.rwell < 0
    \/ a.rinf <= a.rwell
    \/ \E i \in 1..(Size(a.Rpart) - 1) : a.Rpart.data[i] >= a.Rpart.data[i + 1]
    \/ \E i \in 1..Size(a.Rpart) :
          a.Rpart.data[i] <= a.rwell \/ a.Rpart.data[i] >= a.rinf
    \/ \E i \in 1..Size(a.rad) : a.rad.data[i] < a.rwell \/ a.rad.data[i] <= 0
    \/ \E i \in 1..Size(a.time) : a.time.data[i] <= 0
    \/ \E i \in 1..Size(a.Tpart) : a.Tpart.data[i] <= 0
    \/ \E i \in 1..Size(a.Spart) : a.Spart.data[i] <= 0
    \/ ~a.stehfestn.int
    \/ a.stehfestn.val <= 1
    \/ a.stehfestn.val % 2 = 1
    \/ (~a.struc_grid /\ Size(a.rad) # Size(a.time))

\* C1: a diskmodel call with an invalid parameter raises ValueError, and
\* neither the Stehfest inversion nor the Laplace-space solver has been
\* called when it does.
C1_InvalidRaisesFirst ==
    (fn = "diskmodel" /\ DiskInvalid(args))
        => /\ out.outcome = "ValueError"
           /\ out.sfLog = <<>>
           /\ out.lap = NoLap

\* A call whose only fault is a zone radius at the outer radius.
C1_Witness ==
    /\ fn = "diskmodel"
    /\ args.rwell = 0 /\ args.rinf = 4 /\ args.Rpart.data = <<4>>
    /\ args.rad.data = <<1>> /\ args.time.data = <<1>>
    /\ out.outcome = "ValueError"

---------------------------------------------------------------------------
(* C2 *)

Transient == {"theis", "ext_theis2D", "ext_theis3D", "diskmodel"}

\* The call f(a) under the floating-point behaviour e.
Apply(f, a, e) ==
    CASE f = "theis" -> theis(a, e)
      [] f = "ext_theis2D" -> ext_theis2D(a, e)
      [] f = "ext_theis3D" -> ext_theis3D(a, e)
      [] f = "diskmodel" -> diskmodel(a, e)

\* C2: in unstructured mode with N radii and N times the result holds N
\* heads, shaped like the squeezed radii, and the k-th is entry (k, k) of
\* the structured result for the same inputs.
C2_UnstructuredIsDiagonal ==
    (fn \in Transient /\ ~args.struc_grid /\ out.outcome = "return")
        => LET N == Size(args.rad)
               full == Apply(fn, [args EXCEPT !.struc_grid = TRUE], env)
           IN /\ full.outcome = "return"
              /\ Size(full.result) = N * N
              /\ Size(out.result) = N
              /\ out.result.shape =
                     IF N = 1 THEN <<1>> ELSE Squeeze(args.rad).shape
              /\ \A k \in 1..N :
                    out.result.data[k] = full.result.data[(k - 1) * N + k]

\* An unstructured diskmodel call on two or more points has returned.
C2_Witness ==
    /\ fn = "diskmodel"
    /\ ~args.struc_grid
    /\ Size(args.rad) >= 2
    /\ args.rad.shape = <<1, Size(args.rad)>>
    /\ out.outcome = "return"

\* The same for a single point, where np.diag is not applied.
C2_SinglePoint ==
    /\ fn = "diskmodel"
    /\ ~args.struc_grid
    /\ Size(args.rad) = 1
    /\ out.outcome = "return"

---------------------------------------------------------------------------
(* C3 *)

\* len(rpart) == len(Tpart) + 1 == len(Spart) + 1
WellFormed(a) ==
    /\ Size(a.rpart) = Size(a.Tpart) + 1
    /\ Size(a.Tpart) = Size(a.Spart)

AllFinite(res) == \A i \in 1..Size(res) : IsFinite(res.data[i].cls)

\* C3: for every well-formed input, single-zone or multi-zone, the solver
\* returns an array, and no entry of it is non-finite.
C3_AsClaimed ==
    (fn = "lap_transgwflow_cyl" /\ WellFormed(args))
        => (out.outcome = "return" /\ AllFinite(out.result))

\* What holds of C3: whenever the solver returns, directly or under the
\* inversion, no entry of its array is non-finite.
C3_ReturnedIsFinite ==
    (out.lap.path # "none" /\ out.lap.exc = "none") => AllFinite(out.lap.res)

\* A multi-zone call in which a non-finite head was replaced with zero.
C3_Masked ==
    /\ fn = "lap_transgwflow_cyl"
    /\ out.outcome = "return"
    /\ out.lap.path = "multi"
    /\ env.ovf = 1
    /\ ZoneOf(args.rpart, Size(args.Tpart), args.rad.data[1]) # 0
    /\ out.result.data[1] = ZeroVal

\* The solver never returns on the single-zone path.
C3_SingleNeverReturns == ~(out.lap.path = "single" /\ out.lap.exc = "none")

---------------------------------------------------------------------------
(* C4 *)

\* The lengths of the partition and of the zone properties disagree.
LengthMismatch ==
    \/ /\ fn = "diskmodel"
       /\ \/ Size(args.Tpart) # Size(args.Rpart) + 1
          \/ Size(args.Spart) # Size(args.Tpart)
    \/ /\ fn = "lap_transgwflow_cyl"
       /\ ~WellFormed(args)

\* C4: a call with mismatched lengths fails with an error before any
\* matrix is assembled or any head is evaluated, and returns no result.
C4_AsClaimed ==
    LengthMismatch
        => /\ out.outcome # "return"
           /\ out.lap.assembled = 0
           /\ out.lap.evaluated = 0

---------------------------------------------------------------------------
(* C5 *)

\* C5: every call of the Stehfest inversion by theis, ext_theis2D,
\* ext_theis3D or diskmodel passes an even integer order >= 2 and only
\* strictly positive times.
C5_InversionPreconditions ==
    fn \in Transient
        => \A i \in 1..Len(out.sfLog) :
              /\ out.sfLog[i].bound.int
              /\ out.sfLog[i].bound.val >= 2
              /\ out.sfLog[i].bound.val % 2 = 0
              /\ \A k \in 1..Len(out.sfLog[i].time) : out.sfLog[i].time[k] > 0

\* diskmodel has called the inversion with order 4.
C5_Witness ==
    /\ fn = "diskmodel"
    /\ Len(out.sfLog) = 1
    /\ out.sfLog[1].bound = IntOrder(4)
    /\ out.outcome = "return"

---------------------------------------------------------------------------
(* C6 *)

\* C6: every entry of diskmodel(..., hinf=h) is the entry of
\* diskmodel(..., hinf=0) plus h, and nothing else of the call depends on
\* hinf.
C6_HinfIsOffset ==
    fn = "diskmodel"
        => LET base == diskmodel([args EXCEPT !.hinf = 0], env)
           IN /\ out.outcome = base.outcome
              /\ out.sfLog = base.sfLog
              /\ out.lap = base.lap
              /\ out.writes = base.writes
              /\ out.result.shape = base.result.shape
              /\ \A k \in 1..Size(out.result) :
                    /\ out.result.data[k].t = base.result.data[k].t
                    /\ out.result.data[k].sum = base.result.data[k].sum
                    /\ out.result.data[k].off =
                           base.result.data[k].off + args.hinf

\* An unstructured diskmodel call with hinf = 2 on two points has returned.
C6_Witness ==
    /\ fn = "diskmodel"
    /\ args.hinf = 2
    /\ ~args.struc_grid
    /\ Size(args.rad) = 2
    /\ out.outcome = "return"

---------------------------------------------------------------------------
(* C7 *)

\* C7: a valid theis call evaluates the closed form, without the
\* inversion or the solver, exactly when rwell == 0 and rinf == inf;
\* otherwise its result is computed by the inversion on the single-zone
\* partition [rwell, rinf].
C7_AsClaimed ==
    (fn = "theis" /\ out.outcome # "ValueError")
        => IF args.rwell = 0 /\ args.rinf = Inf
           THEN /\ out.closed
                /\ out.sfLog = <<>>
                /\ out.lap = NoLap
                /\ out.outcome = "return"
           ELSE /\ ~out.closed
                /\ Len(out.sfLog) = 1
                /\ out.sfLog[1].rpart = <<args.rwell, args.rinf>>
                /\ out.sfLog[1].Tpart = <<args.T>>
                /\ out.sfLog[1].Spart = <<args.S>>
                /\ out.outcome = "return"

\* What holds of C7: the choice between the closed form and the
\* inversion; with rwell or rinf not default the solver raises TypeError.
C7_Dispatch ==
    (fn = "theis" /\ out.outcome # "ValueError")
        => IF args.rwell = 0 /\ args.rinf = Inf
           THEN /\ out.closed
                /\ out.sfLog = <<>>
                /\ out.lap = NoLap
                /\ out.outcome = "return"
           ELSE /\ ~out.closed
                /\ Len(out.sfLog) = 1
                /\ out.sfLog[1].rpart = <<args.rwell, args.rinf>>
                /\ out.sfLog[1].Tpart = <<args.T>>
                /\ out.sfLog[1].Spart = <<args.S>>
                /\ out.outcome = "TypeError"

---------------------------------------------------------------------------
(* C8 *)

SteadyState == {"thiem", "ext_thiem2D", "ext_thiem3D"}

\* The head at index j is exactly href.
IsHref(j) ==
    /\ IsFinite(out.result.data[j].cls)
    /\ out.result.data[j].sum = EmptySum
    /\ out.result.data[j].off = args.href

\* C8: for thiem, ext_thiem2D and ext_thiem3D the head at rad == Rref is
\* href.
C8_AsClaimed ==
    (fn \in SteadyState /\ out.outcome = "return")
        => \A j \in 1..Size(args.rad) :
              args.rad.data[j] = args.Rref => IsHref(j)

\* What holds of C8: the same, except for ext_thiem2D with Twell >= TG,
\* where every head is nan; and away from Rref the head is not href.
C8_ExceptWellAboveMean ==
    (/\ fn \in SteadyState
     /\ out.outcome = "return"
     /\ ~(fn = "ext_thiem2D" /\ ~args.Twell.none /\ args.Twell.val >= args.TG))
        => \A j \in 1..Size(args.rad) :
              args.rad.data[j] = args.Rref <=> IsHref(j)

---------------------------------------------------------------------------
(* C9 *)

\* The arrays lap_transgwflow_cyl allocates.
Fresh == {"res", "V", "Mb", "X"}

\* C9: after a call of diskmodel or lap_transgwflow_cyl, returned or
\* raised, the caller's arrays hold what they held before, and the solver
\* has stored only into arrays it allocated.
C9_InputsUnchanged ==
    fn \in {"diskmodel", "lap_transgwflow_cyl"}
        => /\ \A b \in DOMAIN heap : heap[b] = args[b].data
           /\ out.lap.writes \subseteq Fresh

\* A multi-zone call of the solver has stored into res, V, Mb and X.
C9_Witness ==
    /\ fn = "lap_transgwflow_cyl"
    /\ out.outcome = "return"
    /\ out.lap.writes = Fresh
    /\ args.rad.data = <<1, 3>>

---------------------------------------------------------------------------
(* C10 *)

\* The call with the relative error replaced by err.
WithErr(err) ==
    IF fn = "ext_theis2D" THEN ext_theis2D([args EXCEPT !.T_err = err], env)
    ELSE ext_theis3D([args EXCEPT !.K_err = err], env)

ErrOf == IF fn = "ext_theis2D" THEN args.T_err ELSE args.K_err

\* C10: ext_theis2D (ext_theis3D) accepts every T_err (K_err) in (0, 1],
\* 1 included, and raises ValueError for every other; the parameters
\* besides the error are valid.
C10_AsClaimed ==
    (fn \in {"ext_theis2D", "ext_theis3D"}
     /\ WithErr(50).outcome # "ValueError")
        => (out.outcome = "ValueError" <=> ~(0 < ErrOf /\ ErrOf <= 100))

\* What holds of C10: the accepted range is the open interval (0, 1).
C10_OpenInterval ==
    (fn \in {"ext_theis2D", "ext_theis3D"}
     /\ WithErr(50).outcome # "ValueError")
        => (out.outcome = "ValueError" <=> ~(0 < ErrOf /\ ErrOf < 100))
---------------------------------------------------------------------------
(* C13 *)

\* The innermost and the outermost boundary of the partition the solver
\* was called with.
Direct == {"lap_transgwflow_cyl", "SingleZone", "MultiZone"}
InnerRadius ==
    IF fn \in Direct THEN args.rpart.data[1] ELSE args.rwell
OuterRadius ==
    IF fn \in Direct THEN args.rpart.data[Size(args.rpart)]
    ELSE args.rinf

\* The systems solved in the call.
Solved == out.lap.sys

\* C13: row 0 of every system has right-hand side Q/s and entries only in
\* the columns 0 and 1 of the innermost zone; with a finite inner boundary
\* its I1 term is in column 0 and its K1 term in column 1.
C13_AsClaimed ==
    \A n \in 1..Len(Solved) :
        LET M == Solved[n].M
        IN /\ Solved[n].V[1] = Pumping(Solved[n].node)
           /\ RowCols(M, 0) \subseteq {0, 1}
           /\ InnerRadius > 0
                 => /\ M[<<0, 0>>].f = "i1" /\ M[<<0, 0>>].z = 0
                    /\ M[<<0, 1>>].f = "k1" /\ M[<<0, 1>>].z = 0

\* What holds of C13: the K1 term (or 1.0) is in column 1; with a finite
\* inner boundary the I1 term is in column 2, the column of zone 1's
\* I0-coefficient, and column 0 is empty.
C13_PumpingRow ==
    \A n \in 1..Len(Solved) :
        LET M == Solved[n].M
        IN /\ Solved[n].V[1] = Pumping(Solved[n].node)
           /\ IF InnerRadius > 0
              THEN /\ RowCols(M, 0) = {1, 2}
                   /\ M[<<0, 1>>].f = "k1" /\ M[<<0, 1>>].z = 0
                   /\ M[<<0, 2>>].f = "i1" /\ M[<<0, 2>>].z = 0
              ELSE /\ RowCols(M, 0) = {1}
                   /\ M[<<0, 1>>] = MbOne
---------------------------------------------------------------------------
(* C14 *)

\* The partition the solver was called with, and the number of zones of
\* the systems solved.
Partition ==
    IF fn \in Direct THEN Squeeze(args.rpart).data
    ELSE out.sfLog[1].rpart
Zones == Len(Solved[1].V) \div 2

\* The entry is sign * scale * f(Cs[z]*r) at the node.
Is(e, sign, scale, ti, f, z, r, node) ==
    e = [sign |-> sign, scale |-> scale, ti |-> ti, f |-> f, z |-> z,
         r |-> r, node |-> node]

\* C14: in every system, the interface i has a head-continuity row 2i+1
\* and a flux-continuity row 2i+2, with entries in the columns 2i..2i+3
\* only, evaluated at rpart[i+1] with the Cs of zone i on the columns of
\* zone i and of zone i+1 on the columns of zone i+1, the flux row's
\* entries of zone i scaled by tmp[i]; every entry is within two of the
\* diagonal, and the rows 0 and 2N-1 hold no entry of an interface.
C14_InterfaceRows ==
    \A n \in 1..Len(Solved) :
        LET M == Solved[n].M
            nd == Solved[n].node
            N == Zones
        IN /\ \A i \in 0..(N - 2) :
                 LET r == Partition[i + 2]
                     h == 2 * i + 1
                     q == 2 * i + 2
                     c == 2 * i
                 IN /\ RowCols(M, h) = c..(c + 3)
                    /\ Is(M[<<h, c>>], 1, "1", -1, "i0", i, r, nd)
                    /\ Is(M[<<h, c + 1>>], 1, "1", -1, "k0", i, r, nd)
                    /\ Is(M[<<h, c + 2>>], -1, "1", -1, "i0", i + 1, r, nd)
                    /\ Is(M[<<h, c + 3>>], -1, "1", -1, "k0", i + 1, r, nd)
                    /\ RowCols(M, q) = c..(c + 3)
                    /\ Is(M[<<q, c>>], 1, "tmp", i, "i1", i, r, nd)
                    /\ Is(M[<<q, c + 1>>], -1, "tmp", i, "k1", i, r, nd)
                    /\ Is(M[<<q, c + 2>>], -1, "1", -1, "i1", i + 1, r, nd)
                    /\ Is(M[<<q, c + 3>>], 1, "1", -1, "k1", i + 1, r, nd)
           /\ \A rc \in DOMAIN M :
                 M[rc] # MbZero
                     => rc[1] - rc[2] \in -2..2
           /\ \A rc \in DOMAIN M :
                 (rc[1] \in {0, 2 * N - 1} /\ M[rc] # MbZero)
                     => \/ M[rc] = MbOne
                        \/ /\ rc[1] = 0
                           /\ M[rc].scale = "Cs*r"
                           /\ M[rc].r = InnerRadius
                        \/ /\ rc[1] = 2 * N - 1
                           /\ M[rc].sign = 1
                           /\ M[rc].f \in {"i0", "k0"}
                           /\ M[rc].r = OuterRadius

\* The solver has solved a system of three zones between a finite inner
\* and a finite outer boundary.
C14_Witness ==
    /\ fn = "lap_transgwflow_cyl"
    /\ out.outcome = "return"
    /\ Len(Solved) = 2
    /\ Zones = 3
    /\ InnerRadius > 0
    /\ OuterRadius < Inf
---------------------------------------------------------------------------
(* C15 *)

\* C15: in every system the last row 2N-1 has right-hand side 0 and
\* entries only in the two columns of the last zone; with an infinite
\* outer boundary it is X[2N-2] = 0 and the solved X[2N-2] is zero; with
\* a finite outer boundary R it is I0(Cs*R)*X[2N-2] + K0(Cs*R)*X[2N-1] = 0
\* with the Cs of the last zone.
C15_OuterRow ==
    \A n \in 1..Len(Solved) :
        LET M == Solved[n].M
            nd == Solved[n].node
            N == Zones
            last == 2 * N - 1
        IN /\ Solved[n].V[last + 1] = MbZero
           /\ RowCols(M, last) \subseteq {last - 1, last}
           /\ IF OuterRadius = Inf
              THEN /\ RowCols(M, last) = {last - 1}
                   /\ M[<<last, last - 1>>] = MbOne
                   /\ Solved[n].X[last] = "zero"
              ELSE /\ Is(M[<<last, last - 1>>], 1, "1", -1, "i0", N - 1,
                         OuterRadius, nd)
                   /\ Is(M[<<last, last>>], 1, "1", -1, "k0", N - 1,
                         OuterRadius, nd)

\* The solver has solved a system of two zones with a finite outer
\* boundary.
C15_Witness ==
    /\ fn = "lap_transgwflow_cyl"
    /\ out.outcome = "return"
    /\ Len(Solved) = 1
    /\ Zones = 2
    /\ OuterRadius = 9

\* The same with an infinite outer boundary: the I0-coefficient of the
\* last zone is zero although the solve was not singular.
C15_Unbounded ==
    /\ fn = "lap_transgwflow_cyl"
    /\ out.outcome = "return"
    /\ Zones = 3
    /\ OuterRadius = Inf
    /\ env.xbad = 0
    /\ Solved[1].raw = <<"fin", "fin", "fin", "fin", "zero", "fin">>
---------------------------------------------------------------------------
(* C16 *)

\* The radii the solver was called with.
Radii ==
    IF fn \in Direct THEN Squeeze(args.rad).data
    ELSE out.sfLog[1].rad

\* The solver returned from the multi-zone path, called with a strictly
\* increasing partition of N + 1 boundaries for its N zones.
MultiReturned ==
    /\ out.lap.path = "multi"
    /\ out.lap.exc = "none"
    /\ Len(Solved) > 0
    /\ Len(Partition) = Zones + 1
    /\ \A i \in 1..(Len(Partition) - 1) : Partition[i] < Partition[i + 1]

\* The head at the radius with index j was replaced by the mask for being
\* non-finite: I0 overflowed, or the radius is the pole of K0.
Overflowed(j) == env.ovf = j \/ Radii[j] = 0

\* C16: on the multi-zone path every radius r with rpart[0] <= r <
\* rpart[N] is evaluated once per node, with X[2i] and X[2i+1] of the one
\* zone i with rpart[i] <= r < rpart[i+1]; a radius on the interior
\* boundary rpart[i+1] is evaluated with zone i+1.
C16_OneZonePerRadius ==
    MultiReturned
        => LET N == Zones
               m == Len(Radii)
               inside == {j \in 1..m : /\ Partition[1] <= Radii[j]
                                      /\ Radii[j] < Partition[N + 1]}
           IN /\ out.lap.evaluated = Len(Solved) * Cardinality(inside)
              /\ \A n \in 1..Len(Solved), j \in inside :
                    LET e == out.lap.res.data[(n - 1) * m + j]
                        i == CHOOSE k \in 0..(N - 1) :
                                 /\ Partition[k + 1] <= Radii[j]
                                 /\ Radii[j] < Partition[k + 2]
                    IN /\ \A k \in 0..(N - 2) :
                             Radii[j] = Partition[k + 2] => i = k + 1
                       /\ IF Overflowed(j) THEN e = ZeroVal
                          ELSE /\ e.zone = i + 1
                               /\ e.node = Solved[n].node
                               /\ e.r = Radii[j]
                               /\ e.coef = <<Solved[n].X[2 * i + 1],
                                             Solved[n].X[2 * i + 2]>>
                               /\ e.rule.M = Solved[n].M

\* A radius on the interior boundary rpart[2] of three zones was
\* evaluated with the outermost zone.
C16_Witness ==
    /\ fn = "lap_transgwflow_cyl"
    /\ MultiReturned
    /\ Zones = 3
    /\ Partition[3] = 3
    /\ Radii = <<1, 3>>
    /\ env.ovf = 0
    /\ out.lap.res.data[2].zone = 3
---------------------------------------------------------------------------
(* C11 *)

\* The Bessel value of an entry as a factor.
Factor(e) == <<e.f, e.z, e.r>>

\* The solution (A, B) of a system of one zone whose row 0 is B = Q/s:
\* row 1 is either A = 0 or a*A + b*B = 0, that is A = -b*B/a.
SolvedPair(sys) ==
    LET a == sys.M[<<1, 0>>]
        b == sys.M[<<1, 1>>]
        B == Mono(1, {<<"Qs", 0, 0>>}, {})
    IN <<IF b = MbZero THEN NoMono
         ELSE Mono(-1, B.num \cup {Factor(b)}, B.den \cup {Factor(a)}),
         B>>

\* The else-branch was run on one zone.
Forced == fn = "MultiZone" /\ Size(args.Tpart) = 1

\* C11: run on a single zone, the multi-zone assembly completes without
\* error in all four boundary cases, and its system has the coefficient
\* pair of the single-zone path as its solution.
C11_AsClaimed ==
    Forced
        => /\ out.lap.exc = "none"
           /\ \A n \in 1..Len(Solved) :
                 /\ Solved[n].V[1] = Pumping(Solved[n].node)
                 /\ Solved[n].M[<<0, 1>>] = MbOne
                 /\ Solved[n].M[<<0, 0>>] = MbZero
                 /\ SolvedPair(Solved[n]) = SingleExprs(args.rpart)

\* What holds of C11: with the inner boundary at 0 the pair is that of the
\* single-zone path, for a finite and for an infinite outer boundary; with
\* a positive inner boundary the store Mb[0, 2] raises IndexError before
\* any system is solved.
C11_OriginOnly ==
    Forced
        => IF InnerRadius > 0
           THEN out.lap.exc = "IndexError" /\ Solved = <<>>
           ELSE /\ out.lap.exc = "none"
                /\ Len(Solved) = Size(args.s)
                /\ \A n \in 1..Len(Solved) :
                      /\ Solved[n].V[1] = Pumping(Solved[n].node)
                      /\ Solved[n].M[<<0, 1>>] = MbOne
                      /\ Solved[n].M[<<0, 0>>] = MbZero
                      /\ SolvedPair(Solved[n]) = SingleExprs(args.rpart)
---------------------------------------------------------------------------
(* C12 *)

\* The heads the single-zone branch has evaluated.
Evaluated ==
    {x \in 1..Size(out.lap.res) : out.lap.res.data[x].zone = 1}

---------------------------------------------------------------------------
(* C17 *)

C17_MultiZone ==
    /\ fn = "MultiZone"
    /\ out.outcome = "return"
    /\ Size(args.Tpart) = 3
    /\ OuterRadius = 9
    /\ Radii = <<3, 9>>
    /\ env = NoEnv
    /\ out.lap.res.data[1].zone = 3
    /\ out.lap.res.data[2] = ZeroVal
---------------------------------------------------------------------------
(* C18 *)

\* C18: every radius that theis, ext_theis2D, ext_theis3D or diskmodel
\* passes to the solver satisfies rwell <= r < rinf.
C18_AsClaimed ==
    fn \in Transient
        => \A i \in 1..Len(out.sfLog) :
              \A j \in 1..Len(out.sfLog[i].rad) :
                  /\ args.rwell <= out.sfLog[i].rad[j]
                  /\ out.sfLog[i].rad[j] < args.rinf

\* What holds of C18: the lower bound, and that the radius is positive.
C18_LowerBound ==
    fn \in Transient
        => \A i \in 1..Len(out.sfLog) :
              \A j \in 1..Len(out.sfLog[i].rad) :
                  /\ args.rwell <= out.sfLog[i].rad[j]
                  /\ out.sfLog[i].rad[j] > 0

\* diskmodel has returned heads for a radius beyond rinf.
C18_Beyond ==
    /\ fn = "diskmodel"
    /\ out.outcome = "return"
    /\ \E j \in 1..Size(args.rad) : args.rad.data[j] > args.rinf
---------------------------------------------------------------------------
(* C19 *)

\* The same call of the solver with no singular system at any node.
Regular ==
    lap_transgwflow_cyl(args.s, args.rad, args.rpart, args.Spart,
                        args.Tpart, [env EXCEPT !.xbad = 0])

\* The solve of some node of a multi-zone call yields non-finite values,
\* in a call that completes when no solve does.
Singular ==
    /\ fn = "lap_transgwflow_cyl"
    /\ Regular.path = "multi"
    /\ Regular.exc = "none"
    /\ env.xbad \in 1..Len(Regular.sys)

\* C19: a singular system at one node does not abort the call: the
\* non-finite entries of X are zero before the heads are evaluated, so
\* that node's heads are zero; every other node is solved and evaluated as
\* it is without the singular one; the result has the shape
\* s.shape + rad.shape.
C19_SingularNodeIsZeroed ==
    Singular
        => LET m == Len(Radii)
               k == env.xbad
           IN /\ out.lap.exc = "none"
              /\ out.outcome = "return"
              /\ Len(Solved) = Size(Squeeze(args.s))
              /\ \A c \in 1..Len(Solved[k].X) :
                    /\ Solved[k].raw[c] = "nonfin"
                    /\ Solved[k].X[c] = "zero"
              /\ \A j \in 1..m :
                    /\ out.lap.res.data[(k - 1) * m + j].cls = "zero"
                    /\ out.lap.res.data[(k - 1) * m + j].coef
                          = <<"zero", "zero">>
              /\ \A n \in 1..Len(Solved) : \A j \in 1..m :
                    n # k => out.lap.res.data[(n - 1) * m + j]
                                = Regular.res.data[(n - 1) * m + j]
              /\ out.lap.res.shape
                    = Squeeze(args.s).shape \o Squeeze(args.rad).shape
              /\ Len(out.lap.res.data) = Size(Squeeze(args.s)) * m

\* The first of two nodes is singular, and the second one yields a head
\* that is not zero.
C19_Witness ==
    /\ Singular
    /\ env.xbad = 1
    /\ Len(Solved) = 2
    /\ \E j \in 1..Len(Radii) : out.lap.res.data[Len(Radii) + j].cls = "fin"
---------------------------------------------------------------------------
(* C20 *)

\* The call of the solver with the n-th node alone, the floating-point
\* behaviour of that node kept.
Alone(n) ==
    lap_transgwflow_cyl(Vec(<<Squeeze(args.s).data[n]>>, "s"), args.rad,
                        args.rpart, args.Spart, args.Tpart,
                        [env EXCEPT !.xbad = IF env.xbad = n THEN 1 ELSE 0])

\* C20: in a multi-zone call, the system and the heads of every node are
\* those of a call with that node alone, whatever the other nodes and their
\* order, although Mb and V are allocated once and reused.
C20_NodesIndependent ==
    (fn = "lap_transgwflow_cyl" /\ MultiReturned)
        => \A n \in 1..Len(Solved) :
              /\ Alone(n).exc = "none"
              /\ Solved[n] = Alone(n).sys[1]
              /\ \A j \in 1..Len(Radii) :
                    out.lap.res.data[(n - 1) * Len(Radii) + j]
                        = Alone(n).res.data[j]

\* Two nodes, with boundary conditions that depend on the node at both
\* ends, and heads that are not zero at both nodes.
C20_Witness ==
    /\ fn = "lap_transgwflow_cyl"
    /\ MultiReturned
    /\ Len(Solved) = 2
    /\ Solved[1].node # Solved[2].node
    /\ Solved[1].M # Solved[2].M
    /\ InnerRadius > 0
    /\ OuterRadius < Inf
    /\ \E j \in 1..Len(Radii) :
          /\ out.lap.res.data[j].cls = "fin"
          /\ out.lap.res.data[Len(Radii) + j].cls = "fin"

\* The same with the nodes in the other order.
C20_Reversed ==
    /\ C20_Witness
    /\ Solved[1].node = <<1, 2>>
---------------------------------------------------------------------------
(* C21 *)

\* The entry of the result for the n-th node and the j-th radius.
Entry(n, j) == out.lap.res.data[(n - 1) * Len(Radii) + j]

C21_MultiZone ==
    /\ fn = "MultiZone"
    /\ Size(args.Tpart) >= 2
    /\ out.outcome = "return"
    /\ InnerRadius = 2
    /\ Radii = <<1, 3>>
    /\ env = NoEnv
    /\ Entry(1, 1) = ZeroVal
    /\ Entry(1, 2).zone = 2
    /\ Entry(1, 2).cls = "fin"

\* The single-zone branch on the same radii and the same inner boundary.
C21_SingleZone ==
    /\ fn = "SingleZone"
    /\ out.outcome = "return"
    /\ InnerRadius = 2
    /\ Radii = <<1, 3>>
    /\ env = NoEnv
    /\ Entry(1, 1).zone = 1
    /\ Entry(1, 1).cls = "fin"
    /\ Entry(1, 2).cls = "fin"
====
